---- MODULE Spec2Model ----
(***************************************************************************)
(* Model of drivers/net/phy/ac200.c: the AC200 Ethernet PHY platform       *)
(* driver.  ac200_ephy_probe reads the calibration cell, powers the PHY up *)
(* through three control registers of the parent chip and registers the    *)
(* PHY driver; ac200_ephy_config_init runs the vendor register sequence;   *)
(* ac200_ephy_remove unregisters the driver and powers the PHY down.       *)
(* Every call into the kernel (allocation, nvmem, regmap, MDIO, phylib)    *)
(* is one step whose outcome (success or a negative errno) is chosen by    *)
(* the environment.                                                        *)
(***************************************************************************)
EXTENDS Integers, Sequences, FiniteSets, TLC

VARIABLES
    pc,          \* position of the platform device: "unbound", a probe or remove step, "bound"
    ret,         \* value returned by the last finished probe / remove
    lastop,      \* "none", "probe" or "remove": the callback that returned last
    ac200regs,   \* the three EPHY control registers of the parent AC200 chip
    registered,  \* whether the phy_driver is registered with phylib
    trace,       \* kernel calls made by the running (or last) probe / remove, in order
    caldata,     \* the 16-bit word in the buffer nvmem_cell_read returned
    callen,      \* the length nvmem_cell_read reported
    calib,       \* the local u16 calib of ac200_ephy_probe
    bufs,        \* calibration buffers currently allocated (returned and not kfree'd)
    nprobes,     \* number of probe calls so far
    cpc,         \* position in ac200_ephy_config_init (0: not running)
    value,       \* the local 'value' of the running config_init / helper
    interface,   \* phydev->interface of the running config_init
    phy,         \* the PHY's MDIO-visible registers
    phylog,      \* register accesses made by the running (or last) config_init
    nfail,       \* failed register accesses in the running (or last) config_init
    cret,        \* << r >> once config_init has returned r, << >> before
    entry        \* hardware state when the running (or last) config_init was entered

vars == << pc, ret, lastop, ac200regs, registered, trace, caldata, callen, calib,
           bufs, nprobes, cpc, value, interface, phy, phylog, nfail, cret, entry >>

probeVars == << pc, ret, lastop, registered, trace, caldata, callen, calib, bufs, nprobes >>
configVars == << cpc, value, interface, phy, phylog, nfail, cret, entry >>

----------------------------------------------------------------------------
(* Bounds of the model. *)

MaxProbes == 2        \* probe calls in one behaviour
MaxFail == 1          \* failing register accesses within one config_init call

----------------------------------------------------------------------------
(* Fixed-width arithmetic. *)

U16 == 65536

RECURSIVE BitAnd(_, _)
BitAnd(x, y) ==
    IF x = 0 \/ y = 0 THEN 0
    ELSE (x % 2) * (y % 2) + 2 * BitAnd(x \div 2, y \div 2)

RECURSIVE BitOr(_, _)
BitOr(x, y) ==
    IF x = 0 THEN y
    ELSE IF y = 0 THEN x
    ELSE (IF x % 2 = 1 \/ y % 2 = 1 THEN 1 ELSE 0) + 2 * BitOr(x \div 2, y \div 2)

RECURSIVE Pow2(_)
Pow2(n) == IF n = 0 THEN 1 ELSE 2 * Pow2(n - 1)

BIT(n) == Pow2(n)

\* ~m within 16 bits
Not16(m) == (U16 - 1) - m

\* an int converted to u16
ToU16(r) == r % U16

\* An unsigned int (32 bits) is kept as its two 16-bit halves.
\* an int (a register value 0..65535 or a negative errno) converted to unsigned int
ToU32(r) ==
    IF r >= 0 THEN [hi |-> (r \div U16) % U16, lo |-> r % U16]
    ELSE [hi |-> (U16 - 1) - (((-r) - 1) \div U16), lo |-> r % U16]

----------------------------------------------------------------------------
(* Register names and bit fields. *)

AC200_SYS_EPHY_CTL0 == "AC200_SYS_EPHY_CTL0"
AC200_SYS_EPHY_CTL1 == "AC200_SYS_EPHY_CTL1"
AC200_EPHY_CTL == "AC200_EPHY_CTL"

AC200_EPHY_RESET_INVALID == BIT(0)
AC200_EPHY_SYSCLK_GATING == BIT(1)

AC200_EPHY_E_EPHY_MII_IO_EN == BIT(0)
AC200_EPHY_E_LNK_LED_IO_EN == BIT(1)
AC200_EPHY_E_SPD_LED_IO_EN == BIT(2)
AC200_EPHY_E_DPX_LED_IO_EN == BIT(3)

AC200_EPHY_SHUTDOWN == BIT(0)
AC200_EPHY_LED_POL == BIT(1)
AC200_EPHY_CLK_SEL == BIT(2)
AC200_EPHY_ADDR(x) == BitAnd(x, 31) * Pow2(4)
AC200_EPHY_XMII_SEL == BIT(11)
AC200_EPHY_CALIB(x) == BitAnd(x, 15) * Pow2(12)

ENOMEM == 12
EINVAL == 22

\* errnos the kernel services may return
ErrCodes == {-5, -2}

\* calibration words and lengths the nvmem cell may hold
CalWords == {0, 13, 43981, 65535}
CalLens == {1, 2, 4}

----------------------------------------------------------------------------
(* The parent chip's register interface. *)

\* ac200_reg_write(ac200, reg, val) returning r: the register takes val iff r = 0
ac200_reg_write(regs, reg, val, r) ==
    IF r = 0 THEN [regs EXCEPT ![reg] = val] ELSE regs

\* ac200_reg_mod(ac200, reg, mask, val) returning r: the masked bits take val iff r = 0
ac200_reg_mod(regs, reg, mask, val, r) ==
    IF r = 0
    THEN [regs EXCEPT ![reg] = BitOr(BitAnd(@, Not16(mask)), BitAnd(val, mask))]
    ELSE regs

\* one kernel call in the trace of a probe / remove
Ev(e, reg, val, ok) == [ev |-> e, reg |-> reg, val |-> val, ok |-> ok]

----------------------------------------------------------------------------
(* ac200_ephy_probe *)

\* the value probe computes for AC200_SYS_EPHY_CTL0
SysEphyCtl0Value == BitOr(AC200_EPHY_RESET_INVALID, AC200_EPHY_SYSCLK_GATING)

\* the value probe computes for AC200_SYS_EPHY_CTL1
SysEphyCtl1Value ==
    BitOr(BitOr(AC200_EPHY_E_EPHY_MII_IO_EN, AC200_EPHY_E_LNK_LED_IO_EN),
          BitOr(AC200_EPHY_E_SPD_LED_IO_EN, AC200_EPHY_E_DPX_LED_IO_EN))

\* the value probe computes for AC200_EPHY_CTL from its local calib
EphyCtlValue(cal) ==
    BitOr(BitOr(AC200_EPHY_LED_POL, AC200_EPHY_CLK_SEL),
          BitOr(AC200_EPHY_ADDR(1), AC200_EPHY_CALIB(cal)))

\* a variant that forgets the offset of 3
CalibOf_noOffset(word) == ToU16(word)

\* calib = *caldata + 3, stored in a u16
CalibOf(word) == ToU16(word + 3)

\* probe returns r: the device is bound iff r = 0
ProbeReturn(r) ==
    /\ pc' = IF r = 0 THEN "bound" ELSE "unbound"
    /\ ret' = r
    /\ lastop' = "probe"

ProbeCall ==
    /\ pc = "unbound"
    /\ nprobes < MaxProbes
    /\ pc' = "p_alloc_priv"
    /\ nprobes' = nprobes + 1
    /\ lastop' = "none"
    /\ trace' = << >>
    /\ caldata' = 0 /\ callen' = 0 /\ calib' = 0
    /\ UNCHANGED << ret, ac200regs, registered, bufs >>
    /\ UNCHANGED configVars

DevmKzallocPriv ==
    /\ pc = "p_alloc_priv"
    /\ \E ok \in BOOLEAN :
         /\ trace' = Append(trace, Ev("kzalloc_priv", "", 0, ok))
         /\ IF ok
            THEN pc' = "p_alloc_ephy" /\ UNCHANGED << ret, lastop >>
            ELSE ProbeReturn(-ENOMEM)
    /\ UNCHANGED << ac200regs, registered, caldata, callen, calib, bufs, nprobes >>
    /\ UNCHANGED configVars

DevmKzallocEphy ==
    /\ pc = "p_alloc_ephy"
    /\ \E ok \in BOOLEAN :
         /\ trace' = Append(trace, Ev("kzalloc_ephy", "", 0, ok))
         /\ IF ok
            THEN pc' = "p_cell_get" /\ UNCHANGED << ret, lastop >>
            ELSE ProbeReturn(-ENOMEM)
    /\ UNCHANGED << ac200regs, registered, caldata, callen, calib, bufs, nprobes >>
    /\ UNCHANGED configVars

DevmNvmemCellGet ==
    /\ pc = "p_cell_get"
    /\ \E r \in {0} \cup ErrCodes :
         /\ trace' = Append(trace, Ev("cell_get", "", 0, r = 0))
         /\ IF r = 0
            THEN pc' = "p_cell_read" /\ UNCHANGED << ret, lastop >>
            ELSE ProbeReturn(r)
    /\ UNCHANGED << ac200regs, registered, caldata, callen, calib, bufs, nprobes >>
    /\ UNCHANGED configVars

NvmemCellRead ==
    /\ pc = "p_cell_read"
    /\ \/ \E r \in ErrCodes :
            /\ trace' = Append(trace, Ev("cell_read", "", 0, FALSE))
            /\ ProbeReturn(r)
            /\ UNCHANGED << caldata, callen, bufs >>
       \/ \E len \in CalLens, word \in CalWords :
            /\ len = 2 \/ word = 0
            /\ trace' = Append(trace, Ev("cell_read", "", len, TRUE))
            /\ caldata' = word
            /\ callen' = len
            /\ bufs' = bufs + 1
            /\ pc' = "p_check_len"
            /\ UNCHANGED << ret, lastop >>
    /\ UNCHANGED << ac200regs, registered, calib, nprobes >>
    /\ UNCHANGED configVars

\* a variant that goes on to the hardware with a calibration of the wrong length
ProbeCalib_noLenCheck ==
    /\ pc = "p_check_len"
    /\ calib' = CalibOf(caldata)
    /\ bufs' = bufs - 1
    /\ trace' = Append(trace, Ev("kfree", "", 0, TRUE))
    /\ pc' = "p_ctl0"
    /\ UNCHANGED << ret, lastop >>
    /\ UNCHANGED << ac200regs, registered, caldata, callen, nprobes >>
    /\ UNCHANGED configVars

\* the length check, calib = *caldata + 3, kfree(caldata) and the filling of *ephy, *priv
ProbeCalib ==
    /\ pc = "p_check_len"
    /\ IF callen # 2
       THEN /\ ProbeReturn(-EINVAL)
            /\ UNCHANGED << calib, bufs, trace >>
       ELSE /\ calib' = CalibOf(caldata)
            /\ bufs' = bufs - 1
            /\ trace' = Append(trace, Ev("kfree", "", 0, TRUE))
            /\ pc' = "p_ctl0"
            /\ UNCHANGED << ret, lastop >>
    /\ UNCHANGED << ac200regs, registered, caldata, callen, nprobes >>
    /\ UNCHANGED configVars

\* a variant that ignores the result of the write
ProbeWrite_unchecked(at, reg, val, next) ==
    /\ pc = at
    /\ \E r \in {0} \cup ErrCodes :
         /\ trace' = Append(trace, Ev("write", reg, val, r = 0))
         /\ ac200regs' = ac200_reg_write(ac200regs, reg, val, r)
         /\ pc' = next
         /\ UNCHANGED << ret, lastop >>
    /\ UNCHANGED << registered, caldata, callen, calib, bufs, nprobes >>
    /\ UNCHANGED configVars

\* one checked ac200_reg_write of probe: a non-zero result is returned at once
ProbeWrite(at, reg, val, next) ==
    /\ pc = at
    /\ \E r \in {0} \cup ErrCodes :
         /\ trace' = Append(trace, Ev("write", reg, val, r = 0))
         /\ ac200regs' = ac200_reg_write(ac200regs, reg, val, r)
         /\ IF r = 0
            THEN pc' = next /\ UNCHANGED << ret, lastop >>
            ELSE ProbeReturn(r)
    /\ UNCHANGED << registered, caldata, callen, calib, bufs, nprobes >>
    /\ UNCHANGED configVars

WriteSysEphyCtl0 ==
    ProbeWrite("p_ctl0", AC200_SYS_EPHY_CTL0, SysEphyCtl0Value, "p_ctl1")

WriteSysEphyCtl1 ==
    ProbeWrite("p_ctl1", AC200_SYS_EPHY_CTL1, SysEphyCtl1Value, "p_ephy_ctl")

WriteEphyCtl ==
    ProbeWrite("p_ephy_ctl", AC200_EPHY_CTL, EphyCtlValue(calib), "p_register")

\* a variant that reports success whatever phy_driver_register returned
PhyDriverRegister_ignoreError ==
    /\ pc = "p_register"
    /\ \E r \in {0} \cup ErrCodes :
         /\ trace' = Append(trace, Ev("register", "", 0, r = 0))
         /\ registered' = IF r = 0 THEN TRUE ELSE registered
         /\ ProbeReturn(0)
    /\ UNCHANGED << ac200regs, caldata, callen, calib, bufs, nprobes >>
    /\ UNCHANGED configVars

PhyDriverRegister ==
    /\ pc = "p_register"
    /\ \E r \in {0} \cup ErrCodes :
         /\ trace' = Append(trace, Ev("register", "", 0, r = 0))
         /\ registered' = IF r = 0 THEN TRUE ELSE registered
         /\ ProbeReturn(r)
    /\ UNCHANGED << ac200regs, caldata, callen, calib, bufs, nprobes >>
    /\ UNCHANGED configVars

----------------------------------------------------------------------------
(* ac200_ephy_remove *)

RemoveCall ==
    /\ pc = "bound"
    /\ cpc = 0
    /\ pc' = "r_unregister"
    /\ lastop' = "none"
    /\ trace' = << >>
    /\ UNCHANGED << ret, ac200regs, registered, caldata, callen, calib, bufs, nprobes >>
    /\ UNCHANGED configVars

PhyDriverUnregister ==
    /\ pc = "r_unregister"
    /\ trace' = Append(trace, Ev("unregister", "", 0, TRUE))
    /\ registered' = FALSE
    /\ pc' = "r_ephy_ctl"
    /\ UNCHANGED << ret, lastop, ac200regs, caldata, callen, calib, bufs, nprobes >>
    /\ UNCHANGED configVars

\* a variant that stops at the first failing write
RemoveWrite_stopOnError(at, reg, val, next) ==
    /\ pc = at
    /\ \E r \in {0} \cup ErrCodes :
         /\ trace' = Append(trace, Ev("write", reg, val, r = 0))
         /\ ac200regs' = ac200_reg_write(ac200regs, reg, val, r)
         /\ pc' = IF r = 0 THEN next ELSE "unbound"
         /\ IF next = "unbound" \/ r # 0
            THEN ret' = r /\ lastop' = "remove"
            ELSE UNCHANGED << ret, lastop >>
    /\ UNCHANGED << registered, caldata, callen, calib, bufs, nprobes >>
    /\ UNCHANGED configVars

\* one unchecked ac200_reg_write of remove
RemoveWrite(at, reg, val, next) ==
    /\ pc = at
    /\ \E r \in {0} \cup ErrCodes :
         /\ trace' = Append(trace, Ev("write", reg, val, r = 0))
         /\ ac200regs' = ac200_reg_write(ac200regs, reg, val, r)
    /\ pc' = next
    /\ IF next = "unbound"
       THEN ret' = 0 /\ lastop' = "remove"
       ELSE UNCHANGED << ret, lastop >>
    /\ UNCHANGED << registered, caldata, callen, calib, bufs, nprobes >>
    /\ UNCHANGED configVars

RemoveWriteEphyCtl ==
    RemoveWrite("r_ephy_ctl", AC200_EPHY_CTL, AC200_EPHY_SHUTDOWN, "r_ctl1")

RemoveWriteSysEphyCtl1 ==
    RemoveWrite("r_ctl1", AC200_SYS_EPHY_CTL1, 0, "r_ctl0")

\* the last write; remove then returns 0
RemoveWriteSysEphyCtl0 ==
    RemoveWrite("r_ctl0", AC200_SYS_EPHY_CTL0, 0, "unbound")


----------------------------------------------------------------------------
(* The PHY behind the MDIO bus: register 0x1f selects the page of registers *)
(* 0x10..0x1e; registers 0xd and 0xe are the clause-22 window onto the MMD   *)
(* registers (0xd: function in bits 15..14 and device in bits 4..0, 0xe:     *)
(* the device's address register when the function is 0, else the MMD       *)
(* register at that address).                                               *)

PAGE_SEL == 31
MMD_CTRL == 13
MMD_DATA == 14

Get(f, k) == IF k \in DOMAIN f THEN f[k] ELSE 0
Set(f, k, v) == [x \in (DOMAIN f) \cup {k} |-> IF x = k THEN v ELSE f[x]]

MmdFunc(ctl) == (ctl \div 16384) % 4
MmdDevad(ctl) == ctl % 32
MmdAddr(h) == Get(h.mmdaddr, MmdDevad(h.mmdctl))
MmdKey(h) == << MmdDevad(h.mmdctl), MmdAddr(h) >>

\* the value a successful phy_read(phydev, reg) returns
phy_read(h, reg) ==
    CASE reg = PAGE_SEL -> h.page
      [] reg = MMD_CTRL -> h.mmdctl
      [] reg = MMD_DATA -> IF MmdFunc(h.mmdctl) = 0 THEN MmdAddr(h)
                           ELSE Get(h.mmddata, MmdKey(h))
      [] OTHER -> Get(h.regs, << h.page, reg >>)

\* the PHY after a successful phy_read(phydev, reg): function 2 post-increments
phy_read_next(h, reg) ==
    IF reg = MMD_DATA /\ MmdFunc(h.mmdctl) = 2
    THEN [h EXCEPT !.mmdaddr = Set(@, MmdDevad(h.mmdctl), (MmdAddr(h) + 1) % U16)]
    ELSE h

\* the PHY after a successful phy_write(phydev, reg, val)
phy_write(h, reg, val) ==
    CASE reg = PAGE_SEL -> [h EXCEPT !.page = val]
      [] reg = MMD_CTRL -> [h EXCEPT !.mmdctl = val]
      [] reg = MMD_DATA ->
           IF MmdFunc(h.mmdctl) = 0
           THEN [h EXCEPT !.mmdaddr = Set(@, MmdDevad(h.mmdctl), val)]
           ELSE [h EXCEPT !.mmddata = Set(@, MmdKey(h), val),
                          !.mmdaddr = IF MmdFunc(h.mmdctl) = 1 THEN @
                                      ELSE Set(@, MmdDevad(h.mmdctl),
                                               (MmdAddr(h) + 1) % U16)]
      [] OTHER -> [h EXCEPT !.regs = Set(@, << h.page, reg >>, val)]

----------------------------------------------------------------------------
(* ac200_ephy_config_init and its helpers, as the sequence of their steps. *)

W(reg, val) == [op |-> "write", reg |-> reg, val |-> val]     \* phy_write(phydev, reg, val)
R(reg, width) == [op |-> "read", reg |-> reg, val |-> width]  \* value = phy_read(phydev, reg)
CLR(bit) == [op |-> "clear", reg |-> 0, val |-> bit]          \* value &= ~BIT(bit)
SETB(bit) == [op |-> "set", reg |-> 0, val |-> bit]           \* value |= BIT(bit)
WV(reg) == [op |-> "writev", reg |-> reg, val |-> 0]          \* phy_write(phydev, reg, value)
SEL == [op |-> "sel", reg |-> 0, val |-> 0]                   \* value = RMII ? XMII_SEL : 0
MOD == [op |-> "mod", reg |-> 0, val |-> 0]                   \* ac200_reg_mod(..., value)
RET == [op |-> "ret", reg |-> 0, val |-> 0]                   \* return 0

\* a variant that never leaves page 0 for the read-modify-write of 0x17
disable_intelligent_ieee_noPage ==
    << W(31, 0), R(23, 32), CLR(3), WV(23), W(31, 0) >>

disable_intelligent_ieee ==
    << W(31, 256),       \* 0x1f = 0x0100, switch to page 1
       R(23, 32),        \* value = phy_read(0x17), value an unsigned int
       CLR(3),
       WV(23),
       W(31, 0) >>       \* switch to page 0

\* a variant that writes the value back without selecting the data function again
disable_802_3az_ieee_noSelect ==
    << W(13, 7), W(14, 60), W(13, 16391), R(14, 32), CLR(1),
       W(13, 7), W(14, 60), WV(14),
       W(31, 512), W(24, 0) >>

disable_802_3az_ieee ==
    << W(13, 7),         \* 0xd = 0x7
       W(14, 60),        \* 0xe = 0x3c
       W(13, 16391),     \* 0xd = BIT(14) | 0x7
       R(14, 32),
       CLR(1),
       W(13, 7),
       W(14, 60),
       W(13, 16391),
       WV(14),
       W(31, 512),       \* 0x1f = 0x0200, switch to page 2
       W(24, 0) >>       \* 0x18 = 0x0000

ac200_ephy_config_init ==
    << W(31, 256),       \* 0x1f = 0x0100
       W(18, 18468),     \* 0x12 = 0x4824
       W(31, 512),       \* 0x1f = 0x0200
       W(24, 0),         \* 0x18 = 0x0000
       W(31, 1536),      \* 0x1f = 0x0600
       W(20, 28815),     \* 0x14 = 0x708f
       W(19, 61440),     \* 0x13 = 0xF000
       W(21, 5424),      \* 0x15 = 0x1530
       W(31, 2048),      \* 0x1f = 0x0800
       W(24, 188) >>     \* 0x18 = 0x00bc
    \o disable_intelligent_ieee
    \o disable_802_3az_ieee
    \o << W(31, 0),      \* 0x1f = 0x0000
          SEL,
          MOD,
          R(19, 16),     \* value = phy_read(0x13), value a u16
          SETB(12),
          WV(19),
          RET >>

Ins == ac200_ephy_config_init[cpc]

Modes == {"MII", "RMII"}

\* results a register access may have: errors only within the failure budget
AccessResults == {0} \cup (IF nfail < MaxFail THEN ErrCodes ELSE {})

LogEv(k, reg, val, ok) == [k |-> k, reg |-> reg, val |-> val, ok |-> ok]

ConfigInitCall ==
    /\ pc = "bound"
    /\ cpc = 0
    /\ cret = << >>
    /\ \E mode \in Modes : interface' = mode
    /\ cpc' = 1
    /\ value' = [hi |-> 0, lo |-> 0]
    /\ phylog' = << >>
    /\ nfail' = 0
    /\ entry' = [phy |-> phy, ac200regs |-> ac200regs]
    /\ UNCHANGED << phy, cret, ac200regs >>
    /\ UNCHANGED probeVars

\* phy_write(phydev, reg, constant); its result is not looked at
PhyWriteConst ==
    /\ cpc > 0
    /\ Ins.op = "write"
    /\ \E r \in AccessResults :
         /\ phy' = IF r = 0 THEN phy_write(phy, Ins.reg, Ins.val) ELSE phy
         /\ phylog' = Append(phylog, LogEv("write", Ins.reg, Ins.val, r = 0))
         /\ nfail' = IF r = 0 THEN nfail ELSE nfail + 1
    /\ cpc' = cpc + 1
    /\ UNCHANGED << value, interface, cret, entry, ac200regs >>
    /\ UNCHANGED probeVars

\* value = phy_read(phydev, reg): a negative errno lands in value like a register value
PhyReadValue ==
    /\ cpc > 0
    /\ Ins.op = "read"
    /\ \E r \in AccessResults :
         LET res == IF r = 0 THEN phy_read(phy, Ins.reg) ELSE r IN
         /\ phy' = IF r = 0 THEN phy_read_next(phy, Ins.reg) ELSE phy
         /\ value' = IF Ins.val = 32 THEN ToU32(res) ELSE [hi |-> 0, lo |-> ToU16(res)]
         /\ phylog' = Append(phylog, LogEv("read", Ins.reg, res, r = 0))
         /\ nfail' = IF r = 0 THEN nfail ELSE nfail + 1
    /\ cpc' = cpc + 1
    /\ UNCHANGED << interface, cret, entry, ac200regs >>
    /\ UNCHANGED probeVars

\* the computations on the local 'value'
LocalStep ==
    /\ cpc > 0
    /\ \/ /\ Ins.op = "clear"
          /\ value' = [value EXCEPT !.lo = BitAnd(@, Not16(BIT(Ins.val)))]
       \/ /\ Ins.op = "set"
          /\ value' = [value EXCEPT !.lo = BitOr(@, BIT(Ins.val))]
       \/ /\ Ins.op = "sel"
          /\ value' = [hi |-> 0,
                       lo |-> IF interface = "RMII" THEN AC200_EPHY_XMII_SEL ELSE 0]
    /\ cpc' = cpc + 1
    /\ UNCHANGED << interface, phy, phylog, nfail, cret, entry, ac200regs >>
    /\ UNCHANGED probeVars

\* phy_write(phydev, reg, value): the u16 parameter takes the low half of value
PhyWriteValue ==
    /\ cpc > 0
    /\ Ins.op = "writev"
    /\ \E r \in AccessResults :
         /\ phy' = IF r = 0 THEN phy_write(phy, Ins.reg, value.lo) ELSE phy
         /\ phylog' = Append(phylog, LogEv("write", Ins.reg, value.lo, r = 0))
         /\ nfail' = IF r = 0 THEN nfail ELSE nfail + 1
    /\ cpc' = cpc + 1
    /\ UNCHANGED << value, interface, cret, entry, ac200regs >>
    /\ UNCHANGED probeVars

\* ac200_reg_mod(priv->ac200, AC200_EPHY_CTL, AC200_EPHY_XMII_SEL, value)
Ac200RegMod ==
    /\ cpc > 0
    /\ Ins.op = "mod"
    /\ \E r \in AccessResults :
         /\ ac200regs' = ac200_reg_mod(ac200regs, AC200_EPHY_CTL, AC200_EPHY_XMII_SEL,
                                       value.lo, r)
         /\ phylog' = Append(phylog, LogEv("mod", 0, value.lo, r = 0))
         /\ nfail' = IF r = 0 THEN nfail ELSE nfail + 1
    /\ cpc' = cpc + 1
    /\ UNCHANGED << value, interface, phy, cret, entry >>
    /\ UNCHANGED probeVars

\* return 0
ConfigReturn ==
    /\ cpc > 0
    /\ Ins.op = "ret"
    /\ cret' = << 0 >>
    /\ cpc' = 0
    /\ UNCHANGED << value, interface, phy, phylog, nfail, entry, ac200regs >>
    /\ UNCHANGED probeVars

----------------------------------------------------------------------------
(* Initial states and specifications. *)

\* the PHY's registers at power-up
PhyInits ==
    { [page |-> 0,
       regs |-> (<< 256, 23 >> :> v17) @@ (<< 0, 23 >> :> 21845) @@ (<< 0, 19 >> :> v13),
       mmdctl |-> m[1],
       mmdaddr |-> (7 :> m[2]),
       mmddata |-> (<< 7, 60 >> :> eee) @@ (<< 7, 61 >> :> 4369) @@ (<< 3, 60 >> :> 8738)] :
      v17 \in {4660, 65535}, v13 \in {2748, 65535}, eee \in {6, 65533},
      m \in {<< 0, 0 >>, << 16391, 61 >>} }

Ac200RegsReset ==
    [r \in {AC200_SYS_EPHY_CTL0, AC200_SYS_EPHY_CTL1, AC200_EPHY_CTL} |-> 0]

ConfigIdle ==
    /\ cpc = 0
    /\ value = [hi |-> 0, lo |-> 0]
    /\ interface = "none"
    /\ phylog = << >>
    /\ nfail = 0
    /\ cret = << >>
    /\ entry = [phy |-> phy, ac200regs |-> Ac200RegsReset]

\* the platform device before its first probe
Init ==
    /\ pc = "unbound"
    /\ ret = 0
    /\ lastop = "none"
    /\ ac200regs = Ac200RegsReset
    /\ registered = FALSE
    /\ trace = << >>
    /\ caldata = 0 /\ callen = 0 /\ calib = 0
    /\ bufs = 0
    /\ nprobes = 0
    /\ phy \in PhyInits
    /\ ConfigIdle

Next ==
    \/ ProbeCall
    \/ DevmKzallocPriv
    \/ DevmKzallocEphy
    \/ DevmNvmemCellGet
    \/ NvmemCellRead
    \/ ProbeCalib
    \/ WriteSysEphyCtl0
    \/ WriteSysEphyCtl1
    \/ WriteEphyCtl
    \/ PhyDriverRegister
    \/ RemoveCall
    \/ PhyDriverUnregister
    \/ RemoveWriteEphyCtl
    \/ RemoveWriteSysEphyCtl1
    \/ RemoveWriteSysEphyCtl0

\* probe and remove of the platform device
Spec == Init /\ [][Next]_vars

\* the trace of a probe that succeeds with calibration word c
ProbeOkTrace(c) ==
    << Ev("kzalloc_priv", "", 0, TRUE),
       Ev("kzalloc_ephy", "", 0, TRUE),
       Ev("cell_get", "", 0, TRUE),
       Ev("cell_read", "", 2, TRUE),
       Ev("kfree", "", 0, TRUE),
       Ev("write", AC200_SYS_EPHY_CTL0, SysEphyCtl0Value, TRUE),
       Ev("write", AC200_SYS_EPHY_CTL1, SysEphyCtl1Value, TRUE),
       Ev("write", AC200_EPHY_CTL, EphyCtlValue(CalibOf(c)), TRUE),
       Ev("register", "", 0, TRUE) >>

\* the device as a successful first probe leaves it, the PHY not yet configured
InitConfig ==
    /\ pc = "bound"
    /\ ret = 0
    /\ lastop = "probe"
    /\ registered = TRUE
    /\ caldata \in CalWords
    /\ callen = 2
    /\ calib = CalibOf(caldata)
    /\ trace = ProbeOkTrace(caldata)
    /\ ac200regs = [Ac200RegsReset EXCEPT
                      ![AC200_SYS_EPHY_CTL0] = SysEphyCtl0Value,
                      ![AC200_SYS_EPHY_CTL1] = SysEphyCtl1Value,
                      ![AC200_EPHY_CTL] = EphyCtlValue(calib)]
    /\ bufs = 0
    /\ nprobes = 1
    /\ phy \in PhyInits
    /\ ConfigIdle

NextConfig ==
    \/ ConfigInitCall
    \/ PhyWriteConst
    \/ PhyReadValue
    \/ LocalStep
    \/ PhyWriteValue
    \/ Ac200RegMod
    \/ ConfigReturn

\* one run of config_init on the freshly bound device
SpecConfig == InitConfig /\ [][NextConfig]_vars

\* probe just after nvmem_cell_read returned a 2-byte cell holding any 16-bit word
InitCalib ==
    /\ pc = "p_check_len"
    /\ ret = 0
    /\ lastop = "none"
    /\ ac200regs = Ac200RegsReset
    /\ registered = FALSE
    /\ caldata \in 0 .. (U16 - 1)
    /\ callen = 2
    /\ calib = 0
    /\ trace = << Ev("kzalloc_priv", "", 0, TRUE),
                  Ev("kzalloc_ephy", "", 0, TRUE),
                  Ev("cell_get", "", 0, TRUE),
                  Ev("cell_read", "", 2, TRUE) >>
    /\ bufs = 1
    /\ nprobes = 1
    /\ phy = CHOOSE h \in PhyInits : TRUE
    /\ ConfigIdle

NextCalib ==
    \/ ProbeCalib
    \/ WriteSysEphyCtl0
    \/ WriteSysEphyCtl1
    \/ WriteEphyCtl

\* the calibration path of probe over every 16-bit calibration word
SpecCalib == InitCalib /\ [][NextCalib]_vars

----------------------------------------------------------------------------
(* Vocabulary of the properties. *)

ProbePcs == {"p_alloc_priv", "p_alloc_ephy", "p_cell_get", "p_cell_read",
             "p_check_len", "p_ctl0", "p_ctl1", "p_ephy_ctl", "p_register"}
RemovePcs == {"r_unregister", "r_ephy_ctl", "r_ctl1", "r_ctl0"}

\* trace is the trace of a probe (running or returned) / of a returned probe
InProbe == pc \in ProbePcs \/ lastop = "probe"
ProbeReturned == lastop = "probe" /\ pc \in {"bound", "unbound"}

\* trace is the trace of a remove (running or returned) / of a returned remove
InRemove == pc \in RemovePcs \/ lastop = "remove"
RemoveReturned == lastop = "remove" /\ pc = "unbound"

Events(e) == {i \in DOMAIN trace : trace[i].ev = e}
Failed(e) == \E i \in Events(e) : ~trace[i].ok
WrongLength == \E i \in Events("cell_read") : trace[i].ok /\ trace[i].val # 2
CalibrationFailure == Failed("cell_get") \/ Failed("cell_read") \/ WrongLength
ListedFailure == CalibrationFailure \/ Failed("write") \/ Failed("register")

IsWrite(e) == e.ev = "write"
Writes == SelectSeq(trace, IsWrite)
WrittenRegs == [i \in DOMAIN Writes |-> Writes[i].reg]
BringUpOrder == << AC200_SYS_EPHY_CTL0, AC200_SYS_EPHY_CTL1, AC200_EPHY_CTL >>
IsPrefix(a, b) == Len(a) <= Len(b) /\ \A i \in DOMAIN a : a[i] = b[i]

\* bit n of the 16-bit value v, and v with bit n cleared / set
BitOf(v, n) == (v \div (2 ^ n)) % 2
Without(v, n) == v - BitOf(v, n) * (2 ^ n)
With(v, n) == Without(v, n) + 2 ^ n

ConfigReturned == cret # << >>
ConfigClean == nfail = 0

----------------------------------------------------------------------------
(* C1: when probe has returned, any of the listed failures (calibration    *)
(* cell missing, calibration read failing, calibration length other than   *)
(* 2, a control register write failing, phy_driver_register failing) made  *)
(* it return a negative status with the PHY driver not registered, and a   *)
(* return of 0 means none of them occurred.                                *)
C1_ProbeFailureIsNegative ==
    ProbeReturned =>
        /\ ListedFailure => (ret < 0 /\ ~registered)
        /\ ret = 0 => ~ListedFailure

\* probe returned after phy_driver_register failed
C1_Witness ==
    ProbeReturned /\ Failed("register") /\ ret < 0 /\ ~registered

(* C3: in a probe, phy_driver_register is called at most once and only     *)
(* after the writes of AC200_SYS_EPHY_CTL0, AC200_SYS_EPHY_CTL1 and        *)
(* AC200_EPHY_CTL all succeeded in that order; each write is attempted at  *)
(* most once, and a failed write is the last thing the probe does.         *)
C3_RegisterAfterOrderedWrites ==
    InProbe =>
        /\ Cardinality(Events("register")) <= 1
        /\ IsPrefix(WrittenRegs, BringUpOrder)
        /\ \A i \in Events("register") :
             /\ WrittenRegs = BringUpOrder
             /\ \A j \in Events("write") : j < i /\ trace[j].ok
        /\ \A j \in Events("write") : ~trace[j].ok => j = Len(trace)
        /\ Failed("write") => pc = "unbound" /\ ~registered

\* probe registered the driver after the three writes
C3_Witness ==
    ProbeReturned /\ registered /\ ret = 0 /\ WrittenRegs = BringUpOrder

(* C4: remove first unregisters the PHY driver, then writes                *)
(* AC200_EPHY_CTL = AC200_EPHY_SHUTDOWN, AC200_SYS_EPHY_CTL1 = 0 and       *)
(* AC200_SYS_EPHY_CTL0 = 0 in that order; all three writes are attempted   *)
(* and remove returns 0 even when a write fails, leaving the driver        *)
(* unregistered.                                                           *)
C4_RemoveOrder ==
    InRemove =>
        /\ IsPrefix([i \in DOMAIN trace |-> << trace[i].ev, trace[i].reg, trace[i].val >>],
                    << << "unregister", "", 0 >>,
                       << "write", AC200_EPHY_CTL, 1 >>,
                       << "write", AC200_SYS_EPHY_CTL1, 0 >>,
                       << "write", AC200_SYS_EPHY_CTL0, 0 >> >>)
        /\ Len(trace) >= 1 => ~registered
        /\ RemoveReturned => (Len(trace) = 4 /\ ret = 0 /\ ~registered)

\* remove returned although its first write failed
C4_Witness ==
    RemoveReturned /\ Len(trace) = 4 /\ ~trace[2].ok /\ trace[4].ok

(* C5: when the calibration cannot be acquired (cell missing, read         *)
(* failing, length not 2), probe returns without writing any of the three  *)
(* control registers and without registering the driver; a wrong length    *)
(* yields -EINVAL.                                                         *)
C5_CalibrationFailureTouchesNothing ==
    (ProbeReturned /\ CalibrationFailure) =>
        /\ Events("write") = {}
        /\ Events("register") = {}
        /\ ~registered
        /\ ret < 0
        /\ WrongLength => ret = -22

\* probe returned -EINVAL for a 4-byte calibration cell
C5_Witness ==
    /\ ProbeReturned
    /\ \E i \in Events("cell_read") : trace[i].ok /\ trace[i].val = 4
    /\ ret = -22

(* C7: the value probe writes to AC200_EPHY_CTL for the calibration word c *)
(* is LED_POL | CLK_SEL | (1 << 4) | ((((c + 3) mod 2^16) mod 16) << 12):  *)
(* bits 15..12 hold the low nibble of c + 3, the address field is 1, and   *)
(* the SHUTDOWN and XMII_SEL bits are clear.                               *)
C7_EphyCtlValue ==
    \A i \in Events("write") :
        trace[i].reg = AC200_EPHY_CTL =>
            LET v == trace[i].val IN
            /\ v = 2 + 4 + 16 + (((caldata + 3) % 65536) % 16) * 4096
            /\ v \div 4096 = (caldata + 3) % 16
            /\ (v \div 16) % 32 = 1
            /\ BitOf(v, 0) = 0
            /\ BitOf(v, 11) = 0
            /\ (trace[i].ok => ac200regs[AC200_EPHY_CTL] = v)

\* the word 0xfffe, whose calibration wraps to 1, has been written
C7_Witness ==
    /\ caldata = 65534
    /\ \E i \in Events("write") :
         trace[i].reg = AC200_EPHY_CTL /\ trace[i].ok /\ trace[i].val = 22 + 4096

(* C10 as claimed: on every path of probe on which nvmem_cell_read         *)
(* returned a buffer, the buffer is freed exactly once before probe        *)
(* returns, the wrong-length path included.                                *)
C10_BufferFreedOnce ==
    (ProbeReturned /\ \E i \in Events("cell_read") : trace[i].ok) =>
        /\ Cardinality(Events("kfree")) = 1
        /\ bufs = 0

----------------------------------------------------------------------------
(* Properties of config_init. *)

MmdEee == << 7, 60 >>

\* the accesses of the log, without values and outcomes
AccessShape == [i \in DOMAIN phylog |-> << phylog[i].k, phylog[i].reg >>]

FixedShape ==
    << << "write", 31 >>, << "write", 18 >>, << "write", 31 >>, << "write", 24 >>,
       << "write", 31 >>, << "write", 20 >>, << "write", 19 >>, << "write", 21 >>,
       << "write", 31 >>, << "write", 24 >>,
       << "write", 31 >>, << "read", 23 >>, << "write", 23 >>, << "write", 31 >>,
       << "write", 13 >>, << "write", 14 >>, << "write", 13 >>, << "read", 14 >>,
       << "write", 13 >>, << "write", 14 >>, << "write", 13 >>, << "write", 14 >>,
       << "write", 31 >>, << "write", 24 >>,
       << "write", 31 >>, << "mod", 0 >>, << "read", 19 >>, << "write", 19 >> >>

IsLog(i, k, reg, val) ==
    /\ i \in DOMAIN phylog
    /\ phylog[i].k = k /\ phylog[i].reg = reg /\ phylog[i].val = val

\* access i of the log moves data through register 0xe
MmdDataAccess(i) ==
    /\ phylog[i].reg = 14
    /\ phylog[i].k \in {"read", "write"}
    /\ ~(phylog[i].k = "write" /\ phylog[i].val = 60 /\ IsLog(i - 1, "write", 13, 7))

(* C2 as claimed: a failing register access of config_init is the last     *)
(* access it makes, and config_init then returns a negative status.        *)
C2_ConfigFailurePropagates ==
    /\ \A i \in DOMAIN phylog : ~phylog[i].ok => i = Len(phylog)
    /\ (ConfigReturned /\ nfail > 0) => cret[1] < 0

(* C6 as claimed: config_init makes the same accesses whatever the mode,   *)
(* and when it has returned the XMII_SEL bit of AC200_EPHY_CTL is set iff  *)
(* the mode is RMII, every other bit being as it was at entry.             *)
C6_OnlyXmiiSelDependsOnMode ==
    /\ IsPrefix(AccessShape, FixedShape)
    /\ ConfigReturned =>
         /\ AccessShape = FixedShape
         /\ BitOf(ac200regs[AC200_EPHY_CTL], 11) = 1 <=> interface = "RMII"
         /\ Without(ac200regs[AC200_EPHY_CTL], 11)
              = Without(entry.ac200regs[AC200_EPHY_CTL], 11)

(* C8: with every access succeeding, each data access through register     *)
(* 0xe follows the select sequence 0xd = 0x7, 0xe = 0x3c, 0xd = 0x4007;    *)
(* the value read is that of MMD 7.0x3c, and when config_init has          *)
(* returned MMD 7.0x3c holds its value at entry with bit 1 cleared and     *)
(* no other MMD register has changed.                                      *)
C8_EeeBitCleared ==
    ConfigClean =>
        /\ \A i \in DOMAIN phylog :
             MmdDataAccess(i) =>
                 /\ IsLog(i - 3, "write", 13, 7)
                 /\ IsLog(i - 2, "write", 14, 60)
                 /\ IsLog(i - 1, "write", 13, 16391)
                 /\ phylog[i].k = "read" => phylog[i].val = Get(entry.phy.mmddata, MmdEee)
                 /\ phylog[i].k = "write" =>
                        phylog[i].val = Without(Get(entry.phy.mmddata, MmdEee), 1)
        /\ ConfigReturned =>
             /\ Cardinality({i \in DOMAIN phylog : MmdDataAccess(i)}) = 2
             /\ Get(phy.mmddata, MmdEee) = Without(Get(entry.phy.mmddata, MmdEee), 1)
             /\ \A k \in (DOMAIN phy.mmddata) \cup (DOMAIN entry.phy.mmddata) :
                  k # MmdEee => Get(phy.mmddata, k) = Get(entry.phy.mmddata, k)

\* config_init returned after clearing bit 1 of an MMD 7.0x3c that held 6,
\* starting from a PHY whose MMD window pointed at another register
C8_Witness ==
    /\ ConfigReturned /\ ConfigClean
    /\ Get(entry.phy.mmddata, MmdEee) = 6
    /\ entry.phy.mmdaddr[7] = 61
    /\ Get(phy.mmddata, MmdEee) = 4

(* C9: with every access succeeding, register 0x17 is read and written     *)
(* while page 1 (0x1f = 0x0100) is selected and ends with only bit 3       *)
(* changed (cleared); the final read and write of register 0x13 happen     *)
(* while page 0 is selected and change only bit 12 (set); and the page     *)
(* select register holds 0 when config_init returns.                       *)
C9_PagesOfReadModifyWrites ==
    ConfigClean =>
        /\ (cpc > 0 /\ Ins.op \in {"read", "writev"} /\ Ins.reg = 23) => phy.page = 256
        /\ (cpc > 0 /\ Ins.op \in {"read", "writev"} /\ Ins.reg = 19) => phy.page = 0
        /\ ConfigReturned =>
             /\ phy.page = 0
             /\ Get(phy.regs, << 256, 23 >>) = Without(Get(entry.phy.regs, << 256, 23 >>), 3)
             /\ Get(phy.regs, << 0, 23 >>) = Get(entry.phy.regs, << 0, 23 >>)
             /\ Get(phy.regs, << 0, 19 >>) = With(Get(entry.phy.regs, << 0, 19 >>), 12)
             /\ Get(phy.regs, << 1536, 19 >>) = 61440

\* config_init returned having cleared bit 3 of 0x17 on page 1 and set bit 12 of 0x13
C9_Witness ==
    /\ ConfigReturned /\ ConfigClean
    /\ Get(entry.phy.regs, << 256, 23 >>) = 65535
    /\ Get(phy.regs, << 256, 23 >>) = 65527
    /\ Get(entry.phy.regs, << 0, 19 >>) = 2748
    /\ Get(phy.regs, << 0, 19 >>) = 6844

----------------------------------------------------------------------------
(* Consistency of the initial states of SpecConfig and SpecCalib with the  *)
(* states probe reaches.                                                   *)

BoundMatchesInitConfig ==
    (pc = "bound" /\ nprobes = 1) => InitConfig

CheckLenMatchesInitCalib ==
    (pc = "p_check_len" /\ nprobes = 1 /\ callen = 2 /\ phy = CHOOSE h \in PhyInits : TRUE)
        => InitCalib

====
